---- MODULE Spec2Model ----
(***************************************************************************)
(* Model of src/src/utils/contractInteractions.ts: the paginated buyer     *)
(* address collection (getAllBuyerAddresses), its retry wrapper            *)
(* (fetchWithRetry), the page fetcher (fetchTransactionsFromApi), the      *)
(* module-level RateLimiter instance and the checkpoint file written       *)
(* through src/src/app/api/save-data/route.ts.                             *)
(*                                                                         *)
(* Strings are sequences of tokens so that startsWith, includes and        *)
(* toLowerCase are computed and not assumed.  Optional numbers             *)
(* (lastProcessedPage?: number) are sequences of length at most one.       *)
(* Wall-clock time (RateLimiter.lastCallTime, the setTimeout sleeps) is    *)
(* not state: no decision of the code other than the length of a sleep     *)
(* reads it.                                                               *)
(***************************************************************************)
EXTENDS Integers, Sequences, FiniteSets, TLC

VARIABLES
    history,      \* the contract's upstream transaction list, ascending by block
    apiKey,       \* process.env.NEXT_PUBLIC_BASESCAN_API_KEY is set
    file,         \* data/<contract>/unique_buyers.json
    rateLimiter,  \* the module-level RateLimiter instance (line 70)
    scan,         \* per invocation of getAllBuyerAddresses: its locals
    unit,         \* a direct caller of fetchWithRetry (retry budget as argument)
    store         \* a direct caller of saveAddresses and loadSavedProgress

vars == <<history, apiKey, file, rateLimiter, scan, unit, store>>

(***************************************************************************)
(* Bounds of the model.                                                    *)
(***************************************************************************)
\* longest upstream history
MaxTx == 2
\* highest block number in a history
MaxBlock == 2
\* records per request: the code's window of 1000 (line 79), scaled down
offset == 1
\* calls a direct caller of fetchWithRetry makes
MaxCalls == 2

(***************************************************************************)
(* Program constants.                                                      *)
(***************************************************************************)
MIN_RATE_LIMIT_WAIT == 6000
MAX_RATE_LIMIT_WAIT == 15000
batchSize == 2
DefaultRetries == 3

Scans == {1, 2}

(***************************************************************************)
(* Strings as token sequences.                                             *)
(***************************************************************************)
Range(s) == {s[i] : i \in DOMAIN s}

\* String.prototype.startsWith
startsWith(s, prefix) ==
    /\ Len(s) >= Len(prefix)
    /\ SubSeq(s, 1, Len(prefix)) = prefix

\* String.prototype.includes
includes(s, sub) ==
    \E i \in 1..(Len(s) - Len(sub) + 1) : SubSeq(s, i, i + Len(sub) - 1) = sub

LowerChar(c) ==
    CASE c = "A" -> "a"
      [] c = "B" -> "b"
      [] c = "C" -> "c"
      [] OTHER -> c

\* String.prototype.toLowerCase
toLowerCase(s) == [i \in DOMAIN s |-> LowerChar(s[i])]

Digit(c) ==
    CASE c = "0" -> 0 [] c = "1" -> 1 [] c = "2" -> 2 [] c = "3" -> 3
      [] c = "4" -> 4 [] c = "5" -> 5 [] c = "6" -> 6 [] c = "7" -> 7
      [] c = "8" -> 8 [] c = "9" -> 9

RECURSIVE parseInt(_)
\* parseInt of a decimal digit string
parseInt(ds) ==
    IF ds = <<>> THEN 0
    ELSE 10 * parseInt(SubSeq(ds, 1, Len(ds) - 1)) + Digit(ds[Len(ds)])

DigitChar(n) ==
    CASE n = 0 -> "0" [] n = 1 -> "1" [] n = 2 -> "2" [] n = 3 -> "3"
      [] n = 4 -> "4" [] n = 5 -> "5" [] n = 6 -> "6" [] n = 7 -> "7"
      [] n = 8 -> "8" [] n = 9 -> "9"

RECURSIVE toString(_)
\* Number.prototype.toString of a natural number
toString(n) ==
    IF n < 10 THEN <<DigitChar(n)>>
    ELSE Append(toString(n \div 10), DigitChar(n % 10))

(***************************************************************************)
(* Upstream data: Transaction (lines 3-7) and the histories considered.    *)
(***************************************************************************)
BuySelector == <<"0x7deb6025">>

BuyInput == <<"0x7deb6025", "000000a1">>
OtherInput == <<"0xa9059cbb", "000000a1">>

\* sender and input of the transactions a history is built from
TxShapes ==
    { [from |-> <<"0x", "A", "b">>, input |-> BuyInput],
      [from |-> <<"0x", "a", "b">>, input |-> BuySelector],
      [from |-> <<"0x", "c", "1">>, input |-> BuyInput],
      [from |-> <<"0x", "B", "2">>, input |-> OtherInput] }

Transaction(shape, block) ==
    [from |-> shape.from, input |-> shape.input, blockNumber |-> toString(block)]

Ascending(h) ==
    \A i \in 1..(Len(h) - 1) : parseInt(h[i].blockNumber) <= parseInt(h[i + 1].blockNumber)

Histories ==
    UNION { { h \in [1..n -> { Transaction(sh, b) : sh \in TxShapes, b \in 1..MaxBlock }] :
                Ascending(h) } : n \in 0..MaxTx }

(***************************************************************************)
(* The upstream transaction API (api.basescan.org, txlist, sort=asc,       *)
(* page=1, offset records from startblock).                                *)
(***************************************************************************)
\* the records the API holds for a request from startBlock
Window(h, startBlock) ==
    LET FromBlock(tx) == parseInt(tx.blockNumber) >= parseInt(toString(startBlock))
        all == SelectSeq(h, FromBlock)
    IN  SubSeq(all, 1, IF Len(all) < offset THEN Len(all) ELSE offset)

NoTransactionsFound == <<"No", "transactions", "found">>

\* messages of a status "0" answer that is not the empty answer
ErrorMessages ==
    { <<"Max", "rate", "limit", "reached">>,
      <<"daily", "limit">>,
      <<"NOTOK">>,
      <<"rate", "limit">>,
      <<"Query", "Timeout">> }

\* what one HTTP request can come back with
Responses(h, startBlock) ==
    LET w == Window(h, startBlock)
    IN  { IF w = <<>>
          THEN [ok |-> TRUE, status |-> "0", message |-> NoTransactionsFound, result |-> <<>>]
          ELSE [ok |-> TRUE, status |-> "1", message |-> <<"OK">>, result |-> w] }
        \cup { [ok |-> TRUE, status |-> "0", message |-> m, result |-> <<>>] :
                 m \in ErrorMessages }
        \cup { [ok |-> FALSE, status |-> "0", message |-> <<>>, result |-> <<>>] }

(***************************************************************************)
(* Error messages thrown by the code.                                      *)
(***************************************************************************)
DAILY_LIMIT_REACHED == <<"DAILY_LIMIT_REACHED">>
API_LIMIT_HIT == <<"API", "limit", "hit">>
KeyNotFound == <<"BaseScan", "API", "key", "not", "found.">>
HttpError == <<"HTTP", "error!", "status:", "500">>
SaveFailed == <<"Failed", "to", "save", "addresses:">>

Thrown(message) == [threw |-> TRUE, message |-> message, addresses |-> <<>>, lastBlock |-> 0]
Returned(addresses, lastBlock) ==
    [threw |-> FALSE, message |-> <<>>, addresses |-> addresses, lastBlock |-> lastBlock]

(***************************************************************************)
(* fetchTransactionsFromApi (lines 72-137)                                 *)
(***************************************************************************)
\* line 124: the filter for buy function calls
IsBuy(tx) == startsWith(tx.input, BuySelector)

\* line 125: the sender as collected
BuyerOfMutKeepCase(tx) == tx.from
BuyerOf(tx) == toLowerCase(tx.from)

RECURSIVE FilterMap(_)
\* lines 123-125: data.result.filter(...).map(...)
FilterMap(result) ==
    IF result = <<>> THEN <<>>
    ELSE LET rest == FilterMap(Tail(result))
         IN  IF IsBuy(Head(result)) THEN <<BuyerOf(Head(result))>> \o rest ELSE rest

\* lines 117-120
LastBlockNumber(result) ==
    IF Len(result) > 0 THEN parseInt(result[Len(result)].blockNumber) ELSE 0

fetchTransactionsFromApi(key, response) ==
    IF ~key THEN Thrown(KeyNotFound)
    ELSE IF ~response.ok THEN Thrown(HttpError)
    ELSE IF response.status = "0"
    THEN IF includes(response.message, NoTransactionsFound)
         THEN Returned(<<>>, 0)
         ELSE IF \/ includes(response.message, <<"Max", "rate", "limit", "reached">>)
                 \/ includes(response.message, <<"daily", "limit">>)
         THEN Thrown(DAILY_LIMIT_REACHED)
         ELSE IF \/ response.message = <<"NOTOK">>
                 \/ includes(response.message, <<"rate", "limit">>)
         THEN Thrown(API_LIMIT_HIT)
         ELSE Thrown(<<"API", "Error:">> \o response.message)
    ELSE Returned(FilterMap(response.result), LastBlockNumber(response.result))

(***************************************************************************)
(* RateLimiter (lines 30-68)                                               *)
(***************************************************************************)
NewRateLimiter == [consecutiveErrors |-> 0, baseWaitTime |-> MIN_RATE_LIMIT_WAIT]

Min(a, b) == IF a < b THEN a ELSE b

\* lines 51-58; baseWaitTime * 1.5 is exact on the values the limiter takes
recordErrorMutNoClamp(rl) ==
    [consecutiveErrors |-> rl.consecutiveErrors + 1,
     baseWaitTime |-> (rl.baseWaitTime * 3) \div 2]
recordError(rl) ==
    [consecutiveErrors |-> rl.consecutiveErrors + 1,
     baseWaitTime |-> Min((rl.baseWaitTime * 3) \div 2, MAX_RATE_LIMIT_WAIT)]

\* lines 60-63
recordSuccess(rl) == [consecutiveErrors |-> 0, baseWaitTime |-> MIN_RATE_LIMIT_WAIT]

\* lines 65-67
getWaitTime(rl) == rl.baseWaitTime

(***************************************************************************)
(* fetchWithRetry (lines 139-159): one pass of the loop body.  attempt is  *)
(* the loop variable on entry.  The outcome is "return" (line 145),        *)
(* "throw" (line 154), "retry" (line 152, attempt + 1 < retries) or        *)
(* "exhausted" (lines 157-158).                                            *)
(***************************************************************************)
fetchWithRetryStepMutExtraAttempt(rl, key, response, attempt, retries) ==
    LET r == fetchTransactionsFromApi(key, response)
    IN  IF ~r.threw
        THEN [rl |-> recordSuccess(rl), outcome |-> "return", result |-> r, slept |-> <<>>]
        ELSE LET rl2 == recordError(rl)
             IN  IF includes(r.message, API_LIMIT_HIT)
                 THEN [rl |-> rl2,
                       outcome |-> IF attempt + 1 <= retries THEN "retry" ELSE "exhausted",
                       result |-> Returned(<<>>, 0),
                       slept |-> <<getWaitTime(rl2)>>]
                 ELSE [rl |-> rl2, outcome |-> "throw", result |-> r, slept |-> <<>>]
fetchWithRetryStepMutRetryAll(rl, key, response, attempt, retries) ==
    LET r == fetchTransactionsFromApi(key, response)
    IN  IF ~r.threw
        THEN [rl |-> recordSuccess(rl), outcome |-> "return", result |-> r, slept |-> <<>>]
        ELSE LET rl2 == recordError(rl)
             IN  [rl |-> rl2,
                  outcome |-> IF attempt + 1 < retries THEN "retry" ELSE "exhausted",
                  result |-> Returned(<<>>, 0),
                  slept |-> <<getWaitTime(rl2)>>]
fetchWithRetryStep(rl, key, response, attempt, retries) ==
    LET r == fetchTransactionsFromApi(key, response)
    IN  IF ~r.threw
        THEN [rl |-> recordSuccess(rl), outcome |-> "return", result |-> r, slept |-> <<>>]
        ELSE LET rl2 == recordError(rl)
             IN  IF includes(r.message, API_LIMIT_HIT)
                 THEN [rl |-> rl2,
                       outcome |-> IF attempt + 1 < retries THEN "retry" ELSE "exhausted",
                       result |-> Returned(<<>>, 0),
                       slept |-> <<getWaitTime(rl2)>>]
                 ELSE [rl |-> rl2, outcome |-> "throw", result |-> r, slept |-> <<>>]

(***************************************************************************)
(* The checkpoint: SavedProgress (lines 15-20), POST /api/save-data        *)
(* (route.ts), saveAddresses (lines 175-202), loadSavedProgress            *)
(* (lines 161-173).                                                        *)
(***************************************************************************)
NoFile == [exists |-> FALSE]

\* lines 184-189: JSON.stringify of the checkpoint object, as its key/value
\* pairs in order; a key whose value is undefined is left out, a number is
\* written in decimal
JSONstringifyMutDropBlock(addresses, lastProcessedPage, lastProcessedBlock) ==
    <<[key |-> "totalBuyers", value |-> toString(Len(addresses))],
      [key |-> "addresses", value |-> addresses]>>
    \o (IF lastProcessedPage = <<>> THEN <<>>
        ELSE <<[key |-> "lastProcessedPage", value |-> toString(lastProcessedPage[1])]>>)
JSONstringify(addresses, lastProcessedPage, lastProcessedBlock) ==
    <<[key |-> "totalBuyers", value |-> toString(Len(addresses))],
      [key |-> "addresses", value |-> addresses]>>
    \o (IF lastProcessedPage = <<>> THEN <<>>
        ELSE <<[key |-> "lastProcessedPage", value |-> toString(lastProcessedPage[1])]>>)
    \o (IF lastProcessedBlock = <<>> THEN <<>>
        ELSE <<[key |-> "lastProcessedBlock", value |-> toString(lastProcessedBlock[1])]>>)

\* line 167: response.json() read as SavedProgress (lines 15-20); a key the
\* text does not hold is undefined
JSONparse(text) ==
    LET Field(k) == LET at == {i \in DOMAIN text : text[i].key = k}
                    IN  IF at = {} THEN <<>> ELSE <<text[CHOOSE i \in at : TRUE].value>>
        Number(k) == IF Field(k) = <<>> THEN <<>> ELSE <<parseInt(Field(k)[1])>>
    IN  [exists |-> TRUE,
         totalBuyers |-> Number("totalBuyers")[1],
         addresses |-> Field("addresses")[1],
         lastProcessedPage |-> Number("lastProcessedPage"),
         lastProcessedBlock |-> Number("lastProcessedBlock")]

\* the checkpoint a reader finds after saveAddresses wrote it
Checkpoint(addresses, lastProcessedPage, lastProcessedBlock) ==
    JSONparse(JSONstringify(addresses, <<lastProcessedPage>>, <<lastProcessedBlock>>))

\* route.ts lines 5-33: the file after the request, and response.ok
POST(f, content, fsOk) ==
    IF fsOk THEN [file |-> content, ok |-> TRUE] ELSE [file |-> f, ok |-> FALSE]

\* lines 175-202: throws when the response is not ok
saveAddresses(f, addresses, lastProcessedPage, lastProcessedBlock, fsOk) ==
    LET res == POST(f, Checkpoint(addresses, lastProcessedPage, lastProcessedBlock), fsOk)
    IN  [file |-> res.file, threw |-> ~res.ok]

\* lines 161-173: null when the file is missing or the request fails
loadSavedProgress(f, fetchOk) == IF fetchOk /\ f.exists THEN f ELSE NoFile

\* x || 0 on an optional number
OrZero(opt) == IF opt = <<>> THEN 0 ELSE opt[1]

\* Set.prototype.add on an insertion-ordered set
SetAddMutAppend(set, x) == Append(set, x)
SetAdd(set, x) == IF x \in Range(set) THEN set ELSE Append(set, x)

RECURSIVE AddAll(_, _)
\* new Set(array), and result.addresses.forEach(addr => allAddresses.add(addr))
AddAll(set, array) ==
    IF array = <<>> THEN set ELSE AddAll(SetAdd(set, Head(array)), Tail(array))

\* line 207
InitialAddresses(saved) == IF saved.exists THEN AddAll(<<>>, saved.addresses) ELSE <<>>

\* line 208
InitialPage(saved) == (IF saved.exists THEN OrZero(saved.lastProcessedPage) ELSE 0) + 1

\* line 209
InitialBlockMutSkip(saved) == (IF saved.exists THEN OrZero(saved.lastProcessedBlock) ELSE 0) + 1
InitialBlock(saved) == IF saved.exists THEN OrZero(saved.lastProcessedBlock) ELSE 0

\* line 237
NextBlock(result) == result.lastBlock + 1

(***************************************************************************)
(* getAllBuyerAddresses (lines 204-293).  A scan record holds the locals   *)
(* of one invocation, its position (pc, pageIdx, attempt), what it gave    *)
(* its caller (ret), and a record of what it did for the properties to     *)
(* read: fetchedTx, the raw transactions of the pages it was given, and    *)
(* lastFetch, the last outcome fetchWithRetry handed it.                   *)
(***************************************************************************)
NoRet == [kind |-> "none", buyerAddresses |-> <<>>, lastProcessedPage |-> <<>>,
          isComplete |-> FALSE, message |-> <<>>]
Result(buyerAddresses, lastProcessedPage, isComplete) ==
    [kind |-> "returned", buyerAddresses |-> buyerAddresses,
     lastProcessedPage |-> lastProcessedPage, isComplete |-> isComplete, message |-> <<>>]
Rejected(message) ==
    [kind |-> "thrown", buyerAddresses |-> <<>>, lastProcessedPage |-> <<>>,
     isComplete |-> FALSE, message |-> message]

NoFetch == [kind |-> "none", page |-> 0, startBlock |-> 0, raw |-> <<>>]

\* what the batch that ended last did at lines 264-268
NoBatchSave == [kind |-> "none", batchSuccess |-> TRUE, newAddressesInBatch |-> 0,
                currentBlock |-> 0, written |-> NoFile]

IdleScan ==
    [pc |-> "idle", allAddresses |-> <<>>, currentPage |-> 0, currentBlock |-> 0,
     pageIdx |-> 0, attempt |-> 0, hasMoreData |-> FALSE, batchSuccess |-> TRUE,
     lastSuccessfulPage |-> 0, newAddressesInBatch |-> 0, ret |-> NoRet,
     savedProgress |-> NoFile, fetchedTx |-> {}, lastFetch |-> NoFetch,
     batchSave |-> NoBatchSave]

Terminal == {"complete", "paused", "failed"}

\* lines 219-225: the top of a batch iteration
BeginBatch(sc) ==
    [sc EXCEPT !.pc = "fetch", !.pageIdx = 0, !.attempt = 0,
               !.hasMoreData = FALSE, !.batchSuccess = TRUE,
               !.lastSuccessfulPage = sc.currentPage - 1,
               !.newAddressesInBatch = 0]

\* lines 204-215
Begin(sc, saved) ==
    BeginBatch([sc EXCEPT !.allAddresses = InitialAddresses(saved),
                          !.currentPage = InitialPage(saved),
                          !.currentBlock = InitialBlock(saved),
                          !.savedProgress = saved])

\* lines 278-284: a rejected saveAddresses reaches the outer catch
Fail(sc, f) ==
    IF includes(SaveFailed, NoTransactionsFound)
    THEN [sc |-> [sc EXCEPT !.pc = "complete", !.ret = Result(<<>>, <<>>, TRUE)], file |-> f]
    ELSE [sc |-> [sc EXCEPT !.pc = "failed", !.ret = Rejected(SaveFailed)], file |-> f]

\* lines 286-292
FinishMutIncomplete(sc, f, fsOk) ==
    LET sv == saveAddresses(f, sc.allAddresses, sc.currentPage - 1, sc.currentBlock, fsOk)
    IN  IF sv.threw THEN Fail(sc, f)
        ELSE [sc |-> [sc EXCEPT !.pc = "complete",
                                !.ret = Result(sc.allAddresses, <<>>, FALSE)],
              file |-> sv.file]
FinishMutNoSave(sc, f, fsOk) ==
    [sc |-> [sc EXCEPT !.pc = "complete", !.ret = Result(sc.allAddresses, <<>>, TRUE)],
     file |-> f]
FinishMutRescan(sc, f, fsOk) ==
    LET sv == saveAddresses(f, sc.allAddresses, sc.currentPage - 1, sc.currentBlock, fsOk)
    IN  IF sv.threw THEN Fail(sc, f)
        ELSE IF sc.lastFetch.kind = "empty"
        THEN [sc |-> BeginBatch([sc EXCEPT !.currentPage = 1, !.currentBlock = 0]),
              file |-> sv.file]
        ELSE [sc |-> [sc EXCEPT !.pc = "complete",
                                !.ret = Result(sc.allAddresses, <<>>, TRUE)],
              file |-> sv.file]
Finish(sc, f, fsOk) ==
    LET sv == saveAddresses(f, sc.allAddresses, sc.currentPage - 1, sc.currentBlock, fsOk)
    IN  IF sv.threw THEN Fail(sc, f)
        ELSE [sc |-> [sc EXCEPT !.pc = "complete",
                                !.ret = Result(sc.allAddresses, <<>>, TRUE)],
              file |-> sv.file]

\* lines 270-277
AfterSave(sc, f, fsOk) ==
    IF ~sc.hasMoreData THEN Finish(sc, f, fsOk)
    ELSE [sc |-> BeginBatch([sc EXCEPT !.currentPage = sc.currentPage + batchSize]),
          file |-> f]

\* lines 264-277: after the for loop over the pages of the batch
EndBatchMutSaveUnchanged(sc, f, fsOk1, fsOk2) ==
    LET Noted(kind, written) ==
            [sc EXCEPT !.batchSave = [kind |-> kind, batchSuccess |-> sc.batchSuccess,
                                      newAddressesInBatch |-> sc.newAddressesInBatch,
                                      currentBlock |-> sc.currentBlock,
                                      written |-> written]]
    IN  IF sc.batchSuccess
        THEN LET sv == saveAddresses(f, sc.allAddresses, sc.lastSuccessfulPage,
                                     sc.currentBlock, fsOk1)
             IN  IF sv.threw THEN Fail(Noted("rejected", NoFile), f)
                 ELSE AfterSave(Noted("written", sv.file), sv.file, fsOk2)
        ELSE AfterSave(Noted("skipped", NoFile), f, fsOk2)
EndBatch(sc, f, fsOk1, fsOk2) ==
    LET Noted(kind, written) ==
            [sc EXCEPT !.batchSave = [kind |-> kind, batchSuccess |-> sc.batchSuccess,
                                      newAddressesInBatch |-> sc.newAddressesInBatch,
                                      currentBlock |-> sc.currentBlock,
                                      written |-> written]]
    IN  IF sc.batchSuccess /\ sc.newAddressesInBatch > 0
        THEN LET sv == saveAddresses(f, sc.allAddresses, sc.lastSuccessfulPage,
                                     sc.currentBlock, fsOk1)
             IN  IF sv.threw THEN Fail(Noted("rejected", NoFile), f)
                 ELSE AfterSave(Noted("written", sv.file), sv.file, fsOk2)
        ELSE AfterSave(Noted("skipped", NoFile), f, fsOk2)

\* lines 229-242: fetchWithRetry returned result for page
OnResult(sc, f, result, page, fsOk1, fsOk2) ==
    IF Len(result.addresses) > 0
    THEN LET merged == AddAll(sc.allAddresses, result.addresses)
             sc2 == [sc EXCEPT !.hasMoreData = TRUE,
                               !.allAddresses = merged,
                               !.newAddressesInBatch =
                                   sc.newAddressesInBatch + Len(merged) - Len(sc.allAddresses),
                               !.currentBlock = NextBlock(result),
                               !.lastSuccessfulPage = page]
         IN  IF sc.pageIdx + 1 < batchSize
             THEN [sc |-> [sc2 EXCEPT !.pageIdx = sc.pageIdx + 1, !.attempt = 0], file |-> f]
             ELSE EndBatch(sc2, f, fsOk1, fsOk2)
    ELSE EndBatch([sc EXCEPT !.hasMoreData = FALSE], f, fsOk1, fsOk2)

\* lines 243-261: fetchWithRetry threw message for page
OnError(sc, f, message, fsOk1, fsOk2) ==
    IF message = DAILY_LIMIT_REACHED
    THEN LET paused == [sc EXCEPT !.pc = "paused",
                                  !.ret = Result(sc.allAddresses,
                                                 <<sc.lastSuccessfulPage>>, FALSE)]
         IN  IF sc.newAddressesInBatch > 0
             THEN LET sv == saveAddresses(f, sc.allAddresses, sc.lastSuccessfulPage,
                                          sc.currentBlock, fsOk1)
                  IN  IF sv.threw THEN Fail(sc, f) ELSE [sc |-> paused, file |-> sv.file]
             ELSE [sc |-> paused, file |-> f]
    ELSE EndBatch([sc EXCEPT !.batchSuccess = FALSE], f, fsOk1, fsOk2)

(***************************************************************************)
(* The checkpoint store as saveAddresses and loadSavedProgress address it: *)
(* one file per contract address as typed.  What answers the request of    *)
(* line 163 is not in the repository; GET serves the file POST wrote under *)
(* the same path (the key-value store of the persistence interface).       *)
(***************************************************************************)
\* contract addresses as typed into the form (page.tsx line 25)
Contracts == { <<"0x", "C", "9">>, <<"0x", "c", "9">> }

\* line 183
Filename(contractAddress) == <<"data", "/">> \o contractAddress \o <<"/", "unique_buyers.json">>

\* line 163
Url(contractAddress) == <<"/", "data", "/">> \o contractAddress \o <<"/", "unique_buyers.json">>

EmptyDisk == [fn \in { Filename(c) : c \in Contracts } |-> <<>>]

GET(disk, url) ==
    LET path == Tail(url)
    IN  IF path \in DOMAIN disk /\ disk[path] # <<>>
        THEN [ok |-> TRUE, body |-> disk[path][1]]
        ELSE [ok |-> FALSE, body |-> <<>>]

\* lines 175-202 on the disk: the disk after the call, and whether it threw
saveAddressesTo(disk, contractAddress, addresses, lastProcessedPage, lastProcessedBlock, fsOk) ==
    LET fn == Filename(contractAddress)
        res == POST(disk[fn],
                    <<JSONstringify(addresses, lastProcessedPage, lastProcessedBlock)>>, fsOk)
    IN  [disk |-> [disk EXCEPT ![fn] = res.file], threw |-> ~res.ok]

\* lines 161-173 on the disk: null when the response is not ok or fetch throws
loadSavedProgressFrom(disk, contractAddress, fetchOk) ==
    LET response == GET(disk, Url(contractAddress))
    IN  IF fetchOk /\ response.ok THEN JSONparse(response.body) ELSE NoFile

(***************************************************************************)
(* The state machine.                                                      *)
(***************************************************************************)
NoResponse == [ok |-> TRUE, status |-> "none", message |-> <<>>, result |-> <<>>]

IdleUnit ==
    [pc |-> "idle", calls |-> 0, retries |-> 0, attempt |-> 0, startBlock |-> 0,
     entryWait |-> 0, waits |-> <<>>, result |-> Returned(<<>>, 0),
     response |-> NoResponse]

NoRun == [allAddresses |-> <<>>, currentPage |-> 0, currentBlock |-> 0]

IdleStore ==
    [pc |-> "idle", disk |-> EmptyDisk, saved |-> [c \in Contracts |-> <<>>],
     contract |-> <<>>, ok |-> FALSE, savedProgress |-> NoFile, run |-> NoRun]

Init ==
    /\ history \in Histories
    /\ apiKey \in BOOLEAN
    /\ file = NoFile
    /\ rateLimiter = NewRateLimiter
    /\ scan = [s \in Scans |-> IdleScan]
    /\ unit = IdleUnit
    /\ store = IdleStore

\* what is left of an invocation that has ended: what it gave its caller,
\* and where its cursor stood
Ended(sc) ==
    [IdleScan EXCEPT !.pc = sc.pc, !.ret = sc.ret, !.currentBlock = sc.currentBlock,
                     !.lastSuccessfulPage = sc.lastSuccessfulPage]

\* getAllBuyerAddresses is called (page.tsx line 25); scan 2 follows scan 1
Start(s) ==
    /\ scan[s].pc = "idle"
    /\ s = 1 \/ scan[1].pc \in Terminal
    /\ \E fetchOk \in BOOLEAN :
         scan' = [t \in Scans |->
                    IF t = s THEN Begin(scan[s], loadSavedProgress(file, fetchOk))
                    ELSE Ended(scan[t])]
    /\ UNCHANGED <<history, apiKey, file, rateLimiter, unit, store>>

\* how a response is recorded in lastFetch
FetchKind(step, response) ==
    CASE step.outcome = "return" -> IF response.result = <<>> THEN "empty" ELSE "data"
      [] step.outcome = "exhausted" -> "exhausted"
      [] step.outcome = "throw" ->
           IF step.result.message = DAILY_LIMIT_REACHED THEN "quota" ELSE "error"

\* one pass of fetchWithRetry's loop for the current page (line 229), and
\* what the scan does with its outcome up to the next request
Attempt(s) ==
    /\ scan[s].pc = "fetch"
    /\ \E response \in Responses(history, scan[s].currentBlock), fsOk1, fsOk2 \in BOOLEAN :
         LET sc == scan[s]
             page == sc.currentPage + sc.pageIdx
             step == fetchWithRetryStep(rateLimiter, apiKey, response, sc.attempt,
                                        DefaultRetries)
             seen == [sc EXCEPT
                        !.fetchedTx = IF step.outcome = "return"
                                      THEN sc.fetchedTx \cup Range(response.result)
                                      ELSE sc.fetchedTx,
                        !.lastFetch = IF step.outcome = "retry" THEN sc.lastFetch
                                      ELSE [kind |-> FetchKind(step, response),
                                            page |-> page,
                                            startBlock |-> sc.currentBlock,
                                            raw |-> IF step.outcome = "return"
                                                    THEN response.result ELSE <<>>]]
             next ==
               CASE step.outcome = "retry" ->
                      [sc |-> [seen EXCEPT !.attempt = sc.attempt + 1], file |-> file]
                 [] step.outcome = "throw" ->
                      OnError(seen, file, step.result.message, fsOk1, fsOk2)
                 [] OTHER ->
                      OnResult(seen, file, step.result, page, fsOk1, fsOk2)
         IN  /\ rateLimiter' = step.rl
             /\ scan' = [scan EXCEPT ![s] = next.sc]
             /\ file' = next.file
    /\ UNCHANGED <<history, apiKey, unit, store>>

\* one invocation
Next == Start(1) \/ Attempt(1)

Spec == Init /\ [][Next]_vars

\* two invocations, the second after the first has ended
NextResume == \E s \in Scans : Start(s) \/ Attempt(s)

SpecResume == Init /\ [][NextResume]_vars

\* every request and every sleep of a run returns (the awaits of lines 36-48,
\* 80, 142-151, 229, 275): a run that can take its next step takes it
SpecResumeFair == SpecResume /\ \A s \in Scans : WF_vars(Attempt(s))

(***************************************************************************)
(* fetchWithRetry called directly, with its retry budget as an argument    *)
(* (line 139), on the shared module-level limiter.                         *)
(***************************************************************************)
RetryBudgets == {DefaultRetries, DefaultRetries + 1}

UnitCall ==
    /\ unit.pc \in {"idle", "returned", "thrown"}
    /\ unit.calls < MaxCalls
    /\ \E retries \in RetryBudgets, startBlock \in 0..MaxBlock :
         unit' = [IdleUnit EXCEPT !.pc = "calling", !.calls = unit.calls + 1,
                                  !.retries = retries, !.startBlock = startBlock,
                                  !.entryWait = getWaitTime(rateLimiter)]
    /\ UNCHANGED <<history, apiKey, file, rateLimiter, scan, store>>

UnitAttempt ==
    /\ unit.pc = "calling"
    /\ \E response \in Responses(history, unit.startBlock) :
         LET step == fetchWithRetryStep(rateLimiter, apiKey, response, unit.attempt,
                                        unit.retries)
             u == [unit EXCEPT !.waits = unit.waits \o step.slept, !.response = response]
         IN  /\ rateLimiter' = step.rl
             /\ unit' =
                  CASE step.outcome = "retry" -> [u EXCEPT !.attempt = unit.attempt + 1]
                    [] step.outcome = "throw" -> [u EXCEPT !.pc = "thrown",
                                                           !.result = step.result]
                    [] OTHER -> [u EXCEPT !.pc = "returned", !.result = step.result]
    /\ UNCHANGED <<history, apiKey, file, scan, store>>

NextRetry == UnitCall \/ UnitAttempt

SpecRetry == Init /\ [][NextRetry]_vars

(***************************************************************************)
(* Two invocations for the same contract address that interleave (two      *)
(* submits of the form, or two tabs): each awaits its own requests, and    *)
(* the steps of one run between the steps of the other.                    *)
(***************************************************************************)
StartConcurrent(s) ==
    /\ scan[s].pc = "idle"
    /\ scan' = [scan EXCEPT ![s] = Begin(scan[s], loadSavedProgress(file, TRUE))]
    /\ UNCHANGED <<history, apiKey, file, rateLimiter, unit, store>>

NextConcurrent == \E s \in Scans : StartConcurrent(s) \/ Attempt(s)

\* the key is configured and both loads are answered: what is lost below is
\* lost to the interleaving alone; one transaction upstream is enough for it
InitConcurrent == Init /\ apiKey /\ Len(history) <= 1

SpecConcurrent == InitConcurrent /\ [][NextConcurrent]_vars

(***************************************************************************)
(* saveAddresses and loadSavedProgress called directly, with the start of  *)
(* getAllBuyerAddresses (lines 206-209) applied to what was loaded.        *)
(***************************************************************************)
\* address arrays handed to saveAddresses: Array.from of a Set
AddressArrays ==
    LET pool == { toLowerCase(sh.from) : sh \in { t \in TxShapes : startsWith(t.input, BuySelector) } }
    IN  UNION { { a \in [1..n -> pool] : \A i, j \in 1..n : a[i] = a[j] => i = j } :
                n \in 0..MaxTx }

\* lastProcessedPage?: number, lastProcessedBlock?: number
OptionalNumbers == { <<>>, <<0>>, <<10 + MaxBlock>> }

StoreSave ==
    \E c \in Contracts, addresses \in AddressArrays,
       lastProcessedPage \in OptionalNumbers, lastProcessedBlock \in OptionalNumbers,
       fsOk \in BOOLEAN :
        LET sv == saveAddressesTo(store.disk, c, addresses, lastProcessedPage,
                                  lastProcessedBlock, fsOk)
        IN  /\ store' = [IdleStore EXCEPT
                            !.pc = "saved", !.disk = sv.disk, !.contract = c,
                            !.ok = ~sv.threw,
                            !.saved = IF sv.threw THEN store.saved
                                      ELSE [store.saved EXCEPT ![c] =
                                              <<[addresses |-> addresses,
                                                 lastProcessedPage |-> lastProcessedPage,
                                                 lastProcessedBlock |-> lastProcessedBlock]>>]]
            /\ UNCHANGED <<history, apiKey, file, rateLimiter, scan, unit>>

StoreLoad ==
    \E c \in Contracts, fetchOk \in BOOLEAN :
        LET saved == loadSavedProgressFrom(store.disk, c, fetchOk)
        IN  /\ store' = [store EXCEPT
                            !.pc = "loaded", !.contract = c, !.ok = fetchOk,
                            !.savedProgress = saved,
                            !.run = [allAddresses |-> InitialAddresses(saved),
                                     currentPage |-> InitialPage(saved),
                                     currentBlock |-> InitialBlock(saved)]]
            /\ UNCHANGED <<history, apiKey, file, rateLimiter, scan, unit>>

NextStore == StoreSave \/ StoreLoad

\* the store is exercised on its own: no scan runs, the history plays no part
InitStore == Init /\ history = <<>> /\ apiKey

SpecStore == InitStore /\ [][NextStore]_vars

(***************************************************************************)
(* Notions the properties are stated in.                                   *)
(***************************************************************************)
\* equal ignoring case
SameIgnoringCase(a, b) == toLowerCase(a) = toLowerCase(b)

\* the lower-cased senders of the transactions of txs that carry the buy selector
BuySenders(txs) == { toLowerCase(tx.from) : tx \in { t \in txs : startsWith(t.input, BuySelector) } }

\* the addresses of the persisted checkpoint
Persisted == IF file.exists THEN Range(file.addresses) ELSE {}

\* the addresses a scan loaded at its start
Loaded(sc) == IF sc.savedProgress.exists THEN Range(sc.savedProgress.addresses) ELSE {}

\* block number of the last raw transaction of a page
LastRawBlock(raw) == parseInt(raw[Len(raw)].blockNumber)

RECURSIVE Collect(_, _, _)
\* the address set of one uninterrupted run from block: every request answered
Collect(h, all, block) ==
    LET w == Window(h, block)
        r == Returned(FilterMap(w), LastBlockNumber(w))
    IN  IF Len(r.addresses) > 0
        THEN Collect(h, AddAll(all, r.addresses), NextBlock(r))
        ELSE all

\* the run ended because a page held nothing to collect, not on a failure
EndedOnData(sc) == sc.pc = "complete" /\ sc.lastFetch.kind \in {"empty", "data"}

(***************************************************************************)
(* C1  Failure surfacing: once a page fetch has failed with an error other *)
(* than QuotaExhausted, the run has ended Failed: the error is thrown, no  *)
(* result object is returned, no further page is requested.                *)
(* Violated: the inner catch (lines 258-260) only breaks out of the batch. *)
(***************************************************************************)
C1_FailureSurfaces ==
    \A s \in Scans :
        scan[s].lastFetch.kind = "error" =>
            scan[s].pc = "failed" /\ scan[s].ret.kind = "thrown"

(***************************************************************************)
(* C2  Cursor advance on empty filter: after a page that returned raw      *)
(* transactions none of which is a buy, currentBlock is the block of the   *)
(* last raw transaction plus one and the run has not ended Complete.       *)
(* Violated: line 230 tests the filtered addresses.                        *)
(***************************************************************************)
C2_CursorAdvancesOnEmptyFilter ==
    \A s \in Scans :
        LET lf == scan[s].lastFetch
        IN  (lf.kind = "data" /\ BuySenders(Range(lf.raw)) = {}) =>
                /\ scan[s].currentBlock = LastRawBlock(lf.raw) + 1
                /\ scan[s].pc # "complete"
                /\ ~scan[s].ret.isComplete

(***************************************************************************)
(* C3  Quota pause: a run paused by QuotaExhausted on page p returned      *)
(* isComplete = false and lastProcessedPage = p - 1, and the persisted     *)
(* checkpoint holds exactly the addresses loaded at start and the buy      *)
(* senders of the pages fetched before.  (Stated of the runs that return;  *)
(* a run whose save at the pause is rejected throws.)                      *)
(* Violated: a batch cut short by a swallowed failure (C1) is not saved.   *)
(***************************************************************************)
C3_QuotaPause ==
    \A s \in Scans :
        scan[s].pc = "paused" =>
            /\ scan[s].lastFetch.kind = "quota"
            /\ scan[s].ret.kind = "returned"
            /\ ~scan[s].ret.isComplete
            /\ scan[s].ret.lastProcessedPage = <<scan[s].lastFetch.page - 1>>
            /\ Persisted = Loaded(scan[s]) \cup BuySenders(scan[s].fetchedTx)

(***************************************************************************)
(* C4  Complete collection: a run that ended with isComplete = true        *)
(* returns the lower-cased sender of every buy transaction of the          *)
(* history.  (Stated of the runs that ended on the upstream's empty        *)
(* answer, where no failure and no page without buys cut the run short.)   *)
(* Violated: the next request starts at lastBlock + 1 (line 237) and skips *)
(* what is left of a block the window cut.                                 *)
(***************************************************************************)
C4_CompleteCollection ==
    \A s \in Scans :
        (scan[s].pc = "complete" /\ scan[s].ret.isComplete
                                 /\ scan[s].lastFetch.kind = "empty") =>
            BuySenders(Range(history)) \subseteq Range(scan[s].ret.buyerAddresses)

(***************************************************************************)
(* C5  Resume without reprocessing: a run that starts from the checkpoint  *)
(* an earlier run (paused or complete) left begins at the earlier run's    *)
(* last processed page plus one and at the block cursor the earlier run    *)
(* had reached.                                                            *)
(* Violated: the checkpoint is written only with new addresses (lines 247, *)
(* 265) and the final save records currentPage - 1 (line 288).             *)
(***************************************************************************)
C5_ResumeWithoutReprocessing ==
    (/\ scan[1].pc \in {"paused", "complete"}
     /\ scan[2].pc = "fetch"
     /\ scan[2].lastFetch.kind = "none"
     /\ scan[2].savedProgress.exists) =>
        /\ scan[2].currentPage = scan[1].lastSuccessfulPage + 1
        /\ scan[2].currentBlock = scan[1].currentBlock

(***************************************************************************)
(* C6  Idempotent convergence: whatever way the first run ended, a second  *)
(* run from the checkpoint it left that runs to its end returns the        *)
(* address set of one uninterrupted run from no checkpoint.                *)
(***************************************************************************)
C6_IdempotentConvergence ==
    EndedOnData(scan[2]) =>
        Range(scan[2].ret.buyerAddresses) = Range(Collect(history, <<>>, 0))

C6_Witness ==
    /\ scan[1].pc = "paused"
    /\ EndedOnData(scan[2])
    /\ scan[2].savedProgress.exists
    /\ OrZero(scan[2].savedProgress.lastProcessedBlock) > 0
    /\ Loaded(scan[2]) # {}
    /\ Loaded(scan[2]) # Range(scan[2].ret.buyerAddresses)

(***************************************************************************)
(* C7  Completion on an empty page, as the code has it: once a page        *)
(* request has returned zero raw transactions the run has ended (no        *)
(* request follows), with isComplete = true and the full accumulated       *)
(* address set, now also the checkpoint, unless a checkpoint save was      *)
(* rejected, and then with the save's error thrown.                        *)
(***************************************************************************)
C7_EmptyPageEndsRun ==
    \A s \in Scans :
        scan[s].lastFetch.kind = "empty" =>
            \/ /\ scan[s].pc = "complete"
               /\ scan[s].ret = Result(scan[s].allAddresses, <<>>, TRUE)
               /\ Persisted = Range(scan[s].allAddresses)
            \/ /\ scan[s].pc = "failed"
               /\ scan[s].ret = Rejected(SaveFailed)

C7_Witness ==
    /\ scan[1].lastFetch.kind = "empty"
    /\ scan[1].lastFetch.page > 1
    /\ scan[1].pc = "complete"
    /\ scan[1].ret.isComplete
    /\ Len(scan[1].ret.buyerAddresses) > 0

\* C7 as claimed: the run always ends with isComplete = true
C7_CompleteOnEmptyPage ==
    \A s \in Scans :
        scan[s].lastFetch.kind = "empty" =>
            /\ scan[s].pc = "complete"
            /\ scan[s].ret = Result(scan[s].allAddresses, <<>>, TRUE)

(***************************************************************************)
(* C8  Address-set soundness and uniqueness: the accumulated set never has *)
(* two members equal ignoring case, every member was loaded from the       *)
(* checkpoint or is the lower-cased sender of a buy transaction of a page  *)
(* fetched in this run, and no step of a run loses a member.               *)
(***************************************************************************)
SoundSet(sc) ==
    /\ \A i, j \in DOMAIN sc.allAddresses :
          SameIgnoringCase(sc.allAddresses[i], sc.allAddresses[j]) => i = j
    /\ Range(sc.allAddresses) \subseteq Loaded(sc) \cup BuySenders(sc.fetchedTx)

C8_AddressSetSound ==
    [][\A s \in Scans :
          /\ SoundSet(scan[s])
          /\ SoundSet(scan'[s])
          /\ scan[s].pc = "fetch" =>
                Range(scan[s].allAddresses) \subseteq Range(scan'[s].allAddresses)]_vars

C8_Witness ==
    /\ scan[2].pc = "fetch"
    /\ Loaded(scan[2]) # {}
    /\ \E tx \in scan[2].fetchedTx :
          /\ startsWith(tx.input, BuySelector)
          /\ tx.from # toLowerCase(tx.from)
          /\ toLowerCase(tx.from) \in Range(scan[2].allAddresses) \ Loaded(scan[2])

(***************************************************************************)
(* C9  Cursor monotonicity: in a run currentBlock and currentPage never    *)
(* decrease, currentPage moves by the batch size, and after every page     *)
(* that returned data currentBlock is the block of the page's last raw     *)
(* transaction plus one.                                                   *)
(* Violated: a page of raw transactions without a buy leaves the cursor    *)
(* where it was (C2).                                                      *)
(***************************************************************************)
C9_CursorMonotone ==
    [][\A s \in Scans :
          scan[s].pc = "fetch" =>
              /\ scan'[s].currentBlock >= scan[s].currentBlock
              /\ scan'[s].currentPage \in {scan[s].currentPage,
                                           scan[s].currentPage + batchSize}
              /\ scan'[s].lastFetch.kind = "data" =>
                    scan'[s].currentBlock = LastRawBlock(scan'[s].lastFetch.raw) + 1]_vars

(***************************************************************************)
(* C10  Rate-limit retry: when three RateLimited attempts for one page are *)
(* followed by a successful fourth within the retry budget, fetchWithRetry *)
(* returns that page's result, the three backoff sleeps are strictly       *)
(* increasing, and the limiter is back at its floor with                   *)
(* consecutiveErrors = 0.                                                  *)
(* Violated: the limiter is one module-level instance (line 70, C19) that  *)
(* no call resets on entry; a call entered above the floor reaches the     *)
(* ceiling before its third sleep.                                         *)
(***************************************************************************)
ThreeThenSuccess ==
    /\ unit.pc = "returned"
    /\ unit.attempt = 3
    /\ Len(unit.waits) = 3

PageResultReturned ==
    LET w == Window(history, unit.startBlock)
    IN  /\ ~unit.result.threw
        /\ Range(unit.result.addresses) = BuySenders(Range(w))
        /\ unit.result.lastBlock = IF w = <<>> THEN 0 ELSE LastRawBlock(w)

BackoffAsClaimed ==
    /\ PageResultReturned
    /\ unit.waits[1] < unit.waits[2]
    /\ unit.waits[2] < unit.waits[3]
    /\ getWaitTime(rateLimiter) = MIN_RATE_LIMIT_WAIT
    /\ rateLimiter.consecutiveErrors = 0

C11_CheckpointWellFormed ==
    file.exists =>
        /\ file.totalBuyers = Len(file.addresses)
        /\ \A i, j \in DOMAIN file.addresses :
              SameIgnoringCase(file.addresses[i], file.addresses[j]) => i = j

C11_Witness ==
    /\ scan[2].pc = "complete"
    /\ scan[2].savedProgress.exists
    /\ file.exists
    /\ file.addresses = scan[2].ret.buyerAddresses
    /\ \E tx \in scan[2].fetchedTx :
          /\ IsBuy(tx)
          /\ BuyerOf(tx) \in Loaded(scan[2])

(***************************************************************************)
(* C12  Checkpoint round-trip, as the code has it: a load whose request    *)
(* succeeded, for a contract address for which a checkpoint was saved,     *)
(* yields the address set, lastProcessedPage and lastProcessedBlock of the *)
(* last save for that contract address, and the resumed run starts with    *)
(* that set, at that page plus one and at that block.                      *)
(***************************************************************************)
RoundTrip ==
    LET sv == store.saved[store.contract][1]
        cp == store.savedProgress
    IN  /\ cp.exists
        /\ Range(cp.addresses) = Range(sv.addresses)
        /\ cp.lastProcessedPage = sv.lastProcessedPage
        /\ cp.lastProcessedBlock = sv.lastProcessedBlock
        /\ Range(store.run.allAddresses) = Range(sv.addresses)
        /\ store.run.currentPage = OrZero(sv.lastProcessedPage) + 1
        /\ store.run.currentBlock = OrZero(sv.lastProcessedBlock)

LoadAfterSave == store.pc = "loaded" /\ store.saved[store.contract] # <<>>

C13_ConfigurationFailure ==
    ~apiKey =>
        /\ ~file.exists
        /\ \A s \in Scans :
              scan[s].pc \in Terminal =>
                  /\ scan[s].pc = "failed"
                  /\ scan[s].ret = Rejected(KeyNotFound)

(***************************************************************************)
(* C14  Retry exhaustion degrades to stop, as the code has it: a page is   *)
(* requested at most DefaultRetries times; when every one of these         *)
(* attempts was RateLimited, fetchWithRetry has returned the empty result  *)
(* and the run has ended: with isComplete = true and the accumulated set,  *)
(* which is also the checkpoint written, or, when a checkpoint save was    *)
(* rejected, with the save's error thrown.                                 *)
(***************************************************************************)
AtMostRetriesRequests ==
    \A s \in Scans :
        /\ scan[s].attempt < DefaultRetries
        /\ scan[s].lastFetch.kind = "exhausted" => scan[s].attempt = DefaultRetries - 1

CompleteAfterExhaustion(sc) ==
    /\ sc.pc = "complete"
    /\ sc.ret = Result(sc.allAddresses, <<>>, TRUE)
    /\ file.exists
    /\ file.addresses = sc.allAddresses
    /\ file.lastProcessedBlock = <<sc.currentBlock>>

C14_ExhaustionEndsRun ==
    /\ AtMostRetriesRequests
    /\ \A s \in Scans :
          scan[s].lastFetch.kind = "exhausted" =>
              \/ CompleteAfterExhaustion(scan[s])
              \/ scan[s].pc = "failed" /\ scan[s].ret = Rejected(SaveFailed)

C14_Witness ==
    /\ scan[1].lastFetch.kind = "exhausted"
    /\ scan[1].lastFetch.page = 2
    /\ CompleteAfterExhaustion(scan[1])
    /\ Len(scan[1].ret.buyerAddresses) > 0
    /\ rateLimiter.consecutiveErrors = DefaultRetries

\* C14 as claimed: the run always ends with isComplete = true
C14_ExhaustionCompletes ==
    /\ AtMostRetriesRequests
    /\ \A s \in Scans :
          scan[s].lastFetch.kind = "exhausted" => CompleteAfterExhaustion(scan[s])

(***************************************************************************)
(* C15  No retry of non-transient failures: when an attempt of             *)
(* fetchWithRetry fails with QuotaExhausted or any failure other than      *)
(* RateLimited, recordError is applied exactly once, the error is thrown   *)
(* to the caller at once, no backoff sleep is made and no further attempt  *)
(* follows, whatever budget remains.                                       *)
(***************************************************************************)
\* the attempt answered by response failed, and not with RateLimited
NonTransientFailure(response) ==
    LET r == fetchTransactionsFromApi(apiKey, response)
    IN  r.threw /\ r.message # API_LIMIT_HIT

C15_NoRetryOfNonTransient ==
    [][(unit.pc = "calling" /\ unit' # unit /\ NonTransientFailure(unit'.response)) =>
          /\ unit'.pc = "thrown"
          /\ unit'.result = fetchTransactionsFromApi(apiKey, unit'.response)
          /\ unit'.waits = unit.waits
          /\ unit'.attempt = unit.attempt
          /\ rateLimiter' = recordError(rateLimiter)
          /\ rateLimiter'.consecutiveErrors = rateLimiter.consecutiveErrors + 1]_vars

C15_Witness ==
    /\ unit.pc = "thrown"
    /\ unit.result.message = DAILY_LIMIT_REACHED
    /\ unit.attempt = 1
    /\ unit.retries = DefaultRetries + 1
    /\ Len(unit.waits) = 1
    /\ rateLimiter.consecutiveErrors = 2

(***************************************************************************)
(* C16  Backoff invariant: after any sequence of recordError and           *)
(* recordSuccess the backoff duration lies between MIN_RATE_LIMIT_WAIT and *)
(* MAX_RATE_LIMIT_WAIT; a recordError multiplies it by 1.5, clamped to the *)
(* maximum, so it does not decrease, and adds one to consecutiveErrors; a  *)
(* recordSuccess sets it to the floor and consecutiveErrors to 0.          *)
(***************************************************************************)
BackoffInRange(rl) ==
    /\ MIN_RATE_LIMIT_WAIT <= getWaitTime(rl)
    /\ getWaitTime(rl) <= MAX_RATE_LIMIT_WAIT
    /\ rl.consecutiveErrors >= 0

\* the attempt of this step failed (recordError, line 147) or not
\* (recordSuccess, line 144)
AttemptFailed(response) == fetchTransactionsFromApi(apiKey, response).threw

C16_BackoffInvariant ==
    [][/\ BackoffInRange(rateLimiter)
       /\ BackoffInRange(rateLimiter')
       /\ (unit.pc = "calling" /\ unit' # unit) =>
             IF AttemptFailed(unit'.response)
             THEN /\ \/ 2 * getWaitTime(rateLimiter') = 3 * getWaitTime(rateLimiter)
                     \/ /\ getWaitTime(rateLimiter') = MAX_RATE_LIMIT_WAIT
                        /\ 3 * getWaitTime(rateLimiter) >= 2 * MAX_RATE_LIMIT_WAIT
                  /\ getWaitTime(rateLimiter') >= getWaitTime(rateLimiter)
                  /\ rateLimiter'.consecutiveErrors = rateLimiter.consecutiveErrors + 1
             ELSE /\ getWaitTime(rateLimiter') = MIN_RATE_LIMIT_WAIT
                  /\ rateLimiter'.consecutiveErrors = 0]_vars

C16_Witness ==
    /\ getWaitTime(rateLimiter) = MAX_RATE_LIMIT_WAIT
    /\ rateLimiter.consecutiveErrors = 5
    /\ unit.pc = "calling"
    /\ unit.calls = 2

(***************************************************************************)
(* C17  Batch checkpoint, as the code has it: when a batch ends in which   *)
(* no page failed and at least one new address was added, the checkpoint   *)
(* is overwritten with the full current address set, the last page of the  *)
(* batch that gave addresses and the current block cursor, unless the save *)
(* is rejected, and then the checkpoint is left as it was and the run      *)
(* throws; a batch that added no new address makes no batch save.          *)
(***************************************************************************)
\* this step ends a batch of scan s (lines 264-277)
BatchEnds(s) ==
    /\ scan[s].pc = "fetch"
    /\ scan'[s].lastFetch.kind # "quota"
    /\ \/ scan'[s].pc \in {"complete", "failed"}
       \/ scan'[s].currentPage = scan[s].currentPage + batchSize

\* the last page of the batch that gave addresses, when one did
LastPageWithAddresses(lf) ==
    IF lf.kind = "data" /\ BuySenders(Range(lf.raw)) # {} THEN lf.page ELSE lf.page - 1

BatchSaveWritten(s) ==
    LET b == scan'[s].batchSave
    IN  /\ b.kind = "written"
        /\ b.written.exists
        /\ b.written.addresses = scan'[s].allAddresses
        /\ b.written.totalBuyers = Len(scan'[s].allAddresses)
        /\ Range(b.written.addresses) = Loaded(scan'[s]) \cup BuySenders(scan'[s].fetchedTx)
        /\ b.written.lastProcessedPage = <<LastPageWithAddresses(scan'[s].lastFetch)>>
        /\ b.written.lastProcessedBlock = <<scan'[s].currentBlock>>
        /\ scan'[s].pc \in {"fetch", "failed"} => file' = b.written

BatchSaveRejected(s) ==
    /\ scan'[s].batchSave.kind = "rejected"
    /\ scan'[s].pc = "failed"
    /\ scan'[s].ret = Rejected(SaveFailed)
    /\ file' = file

NoBatchSaveMade(s) ==
    /\ scan'[s].batchSave.kind = "skipped"
    /\ scan'[s].pc \in {"fetch", "failed"} => file' = file

EndsComplete(s) == scan[s].pc = "fetch" /\ scan'[s].pc = "complete"

C18_FinalCheckpoint ==
    [][\A s \in Scans :
          EndsComplete(s) =>
              /\ scan'[s].ret.kind = "returned"
              /\ scan'[s].ret.isComplete
              /\ file'.exists
              /\ file'.addresses = scan'[s].ret.buyerAddresses
              /\ file'.totalBuyers = Len(scan'[s].ret.buyerAddresses)
              /\ file'.lastProcessedBlock = <<scan'[s].currentBlock>>
              /\ scan'[s].currentBlock >= scan[s].currentBlock]_vars

C18_Witness ==
    /\ scan[2].pc = "complete"
    /\ scan[2].savedProgress.exists
    /\ Loaded(scan[2]) # {}
    /\ Range(scan[2].ret.buyerAddresses) = Loaded(scan[2])
    /\ scan[2].batchSave.kind = "skipped"
    /\ file.addresses = scan[2].ret.buyerAddresses
    /\ file.lastProcessedPage # scan[2].savedProgress.lastProcessedPage

(***************************************************************************)
(* C19  Rate-limiter state is per scan: when an invocation of              *)
(* getAllBuyerAddresses starts, also after an earlier invocation in the    *)
(* same process that ended after errors, the limiter has                   *)
(* consecutiveErrors = 0 and its backoff duration at the floor.            *)
(* Violated: the limiter is one module-level instance (line 70) that only  *)
(* a successful fetch resets.                                              *)
(***************************************************************************)
\* the invocation has made no request yet
JustStarted(sc) == sc.pc = "fetch" /\ sc.lastFetch.kind = "none" /\ sc.attempt = 0

C19_LimiterPerScan ==
    \A s \in Scans :
        JustStarted(scan[s]) =>
            /\ rateLimiter.consecutiveErrors = 0
            /\ getWaitTime(rateLimiter) = MIN_RATE_LIMIT_WAIT

(***************************************************************************)
(* C20  Lost update under concurrent scans: with two invocations that      *)
(* interleave a state is reachable in which one scan's overwrite has       *)
(* removed an address the other had persisted (LostUpdate, reached under   *)
(* SpecConcurrent); with a single active scan at a time the persisted      *)
(* address set never shrinks from one save to the next.                    *)
(* Violated in its second part: a scan whose checkpoint load fails starts  *)
(* from the empty set (lines 164-172, 207) and overwrites the checkpoint.  *)
(***************************************************************************)
PersistedIn(f) == IF f.exists THEN Range(f.addresses) ELSE {}

\* scan t ended Complete, so it persisted what it returned, and the
\* checkpoint now lacks one of these addresses
LostUpdate ==
    \E s, t \in Scans :
        /\ s # t
        /\ scan[t].pc = "complete"
        /\ scan[s].pc \in {"paused", "complete"}
        /\ file.exists
        /\ Range(scan[s].allAddresses) = PersistedIn(file)
        /\ ~(Range(scan[t].ret.buyerAddresses) \subseteq PersistedIn(file))

C20_PersistedNeverShrinks == [][PersistedIn(file) \subseteq PersistedIn(file')]_vars

(***************************************************************************)
(* C21  Termination: for every finite upstream history and every pattern   *)
(* of responses, provided each request and each sleep returns, a run of    *)
(* getAllBuyerAddresses eventually reaches one of Complete (returns        *)
(* isComplete = true), QuotaPaused (returns isComplete = false) or Failed  *)
(* (throws), exactly one of them, and makes no page request afterwards.    *)
(***************************************************************************)
\* the outcome handed to the caller is the one of the terminal state
OneOutcome(sc) ==
    /\ sc.pc = "complete" => sc.ret.kind = "returned" /\ sc.ret.isComplete
    /\ sc.pc = "paused" => sc.ret.kind = "returned" /\ ~sc.ret.isComplete
    /\ sc.pc = "failed" => sc.ret.kind = "thrown"
    /\ sc.pc \notin Terminal => sc.ret.kind = "none"

\* a run is called once and a terminal state is left by no step, so that
\* every run that was called ends exactly when, from some point on, no run is
\* under way
C21_Termination ==
    /\ <>[](\A s \in Scans : scan[s].pc # "fetch")
    /\ [](\A s \in Scans : OneOutcome(scan[s]))
    /\ [](\A s \in Scans : scan[s].pc \in Terminal => ~ENABLED Attempt(s))
    /\ [][\A s \in Scans : scan[s].pc \in Terminal =>
              scan[s].pc' = scan[s].pc /\ scan[s].ret' = scan[s].ret]_vars

\* a run that went past its first batch and then ended
C21_Witness ==
    \E s \in Scans : scan[s].pc \in Terminal /\ scan[s].lastFetch.page >= 3

(***************************************************************************)
(* C22  Persisted page cursor never goes backward: across the successive   *)
(* checkpoint writes of one run (batch saves, the quota save, the final    *)
(* save on Complete) the saved lastProcessedPage never decreases and is    *)
(* never smaller than the last page the run processed successfully; in     *)
(* particular the final save records no smaller page than the batch save   *)
(* before it.                                                              *)
(* Violated: the final save writes currentPage - 1 (line 288), the page    *)
(* before the batch, after a batch save that wrote lastSuccessfulPage.     *)
(***************************************************************************)
SavedPage(f) == OrZero(f.lastProcessedPage)

\* the step of run s wrote the checkpoint
Wrote(s) == scan[s].pc = "fetch" /\ file' # file

C22_PageCursorNeverBackward ==
    [][\A s \in Scans :
         Wrote(s) =>
           /\ file.exists => SavedPage(file') >= SavedPage(file)
           /\ scan'[s].pc = "complete" /\ scan'[s].batchSave.kind = "written" =>
                  SavedPage(file') >= SavedPage(scan'[s].batchSave.written)
           /\ SavedPage(file') >= scan'[s].lastSuccessfulPage]_vars

====
